---- MODULE Spec2Model ----
(***************************************************************************)
(* Model of the polling-system API: the Question and Option collections   *)
(* of the document store and the request handlers of                      *)
(* controller/option_controller.js (create, delete, addVote) and          *)
(* controller/question_controller.js (create, delete).                    *)
(*                                                                         *)
(* Every handler is an async function: it runs synchronously up to an     *)
(* `await` of a store call, and other requests may run while it waits.    *)
(* One action of the model is one store call of a handler together with   *)
(* the synchronous code that follows it up to the next store call or the  *)
(* response.  A store call may fail (the promise rejects); the handler's  *)
(* try/catch decides what the caller then sees.                           *)
(***************************************************************************)
EXTENDS Integers, Sequences, FiniteSets, TLC

\* ---------------------------------------------------------------- bounds
NumProcs == 2      \* requests that can be in flight at the same time
MaxQ     == 1      \* question ids the store can hand out
MaxO     == 2      \* option ids the store can hand out
MaxVotes == 3      \* addVote requests the model accepts

Procs == 1..NumProcs
QId   == 1..MaxQ
OId   == 1..MaxO
NoId  == 0

\* request bodies: the text of an option / the title of a question, a string
\* as the sequence of its characters, or the field missing from the body
Undefined == <<"undefined">>
Titles == {Undefined, <<>>, <<" ">>, <<" ", "a">>}
Texts == {Undefined, <<>>, <<"a">>}

VARIABLES
  questions,   \* Question collection: id -> document
  options,     \* Option collection:   id -> document
  nextQ,       \* next fresh _id of the Question collection
  nextO,       \* next fresh _id of the Option collection
  pc,          \* per request slot: the await the handler is suspended at
  req,         \* per request slot: the request (handler, params.id, body)
  loc,         \* per request slot: the handler's local variables
  res,         \* per request slot: the response sent to the caller
  pre,         \* history: the store when the request arrived
  alone,       \* history: no other request took a step since it arrived
  acks,        \* history: per option, addVote requests answered 200
  serial,      \* history: so far the requests ran one at a time, no store call failed
  scn,         \* history: requests of the scenario of section 8 completed, or -1
  slist,       \* history: per question, its list as the answered requests give it
  dup          \* history: answers given in the repeated delete of option 1, or -1

vars == <<questions, options, nextQ, nextO, pc, req, loc, res, pre, alone,
          acks, serial, scn, slist, dup>>

store == <<questions, options>>

\* ------------------------------------------------------------- documents
NoQuestion == [ex |-> FALSE, options |-> <<>>]
NoOption   == [ex |-> FALSE, votes |-> 0, link |-> FALSE]

\* schema default of Option.votes
DefaultVotes == 0

\* an option that starts with one vote
NewOption_Voted == [ex |-> TRUE, votes |-> 1, link |-> FALSE]

\* Option.create({ text }): votes takes the schema default
NewOption == [ex |-> TRUE, votes |-> DefaultVotes, link |-> FALSE]

NewQuestion == [ex |-> TRUE, options |-> <<>>]

NoReq == [op |-> "none", id |-> NoId, text |-> <<>>]
NoLoc == [q |-> NoId, o |-> NoId, votes |-> 0, list |-> <<>>, docs |-> {}]
NoRes == [kind |-> "none", status |-> 0, id |-> NoId, votes |-> 0]

Range(s) == {s[i] : i \in 1..Len(s)}

\* ----------------------------------------------------------- store calls
\* Model.findById: the document, or null
QuestionFound(id) == id \in QId /\ questions[id].ex

\* a findById that still finds every document ever created
OptionFound_Issued(id) == id \in OId /\ id < nextO

\* a findById that takes any well-formed id for a stored one
OptionFound_Always(id) == id \in OId

OptionFound(id) == id \in OId /\ options[id].ex

\* Question.findOne({options: {$elemMatch: {$eq: id}}}): the questions that match
Owners(id) == {q \in QId : questions[q].ex /\ id \in Range(questions[q].options)}

\* the first match in natural order, or NoId for null
FindOwner(id) ==
  IF Owners(id) = {} THEN NoId
  ELSE CHOOSE q \in Owners(id) : \A r \in Owners(id) : q <= r

\* a save with upsert: the missing document is written anew
NoMatch_Upsert(doc) == [doc EXCEPT !.ex = TRUE]

\* save() of a document loaded earlier is an update by _id without upsert:
\* when the document has been deleted it matches nothing, writes nothing
NoMatch(doc) == doc

\* an unshift in the place of the push: the id goes to the front
Push_Front(list, id) == <<id>> \o list

\* a push that adds the id two times
Push_Twice(list, id) == list \o <<id, id>>

\* a save that writes the array as the one new id
Push_Reset(list, id) == <<id>>

\* a push that leaves the array as it was
Push_Nothing(list, id) == list

\* question.options.push(option._id), saved as a $push
Push(list, id) == Append(list, id)

\* a $pull with the test turned round: every other entry is removed
Pull_Others(list, id) == SelectSeq(list, LAMBDA x : x = id)

\* a $pull that removes the first entry, whatever it is
Pull_First(list, id) == IF list = <<>> THEN list ELSE Tail(list)

\* a $set of the empty array in the place of the $pull
Pull_All(list, id) == <<>>

\* a $pop in the place of the $pull: the last entry is removed
Pull_Last(list, id) == SubSeq(list, 1, Len(list) - 1)

\* {$pull: {options: id}}: every matching entry is removed
Pull(list, id) == SelectSeq(list, LAMBDA x : x # id)

\* a populate that gives a missing document as one with a vote
Populated_Ghost(list) ==
  {[id |-> o, votes |-> IF options[o].ex THEN options[o].votes ELSE 1] :
     o \in Range(list)}

\* populate("options"): the documents of the list that exist, as read
Populated(list) ==
  {[id |-> o, votes |-> options[o].votes] : o \in {x \in Range(list) : options[x].ex}}

\* every() in the place of some()
HasVotes_Every(docs) == docs # {} /\ \A d \in docs : d.votes > 0

\* option.votes > 1 in the place of option.votes > 0
HasVotes_Above1(docs) == \E d \in docs : d.votes > 1

\* question.options.some((option) => option.votes > 0)
HasVotes(docs) == \E d \in docs : d.votes > 0

\* a deleteMany that matches nothing
DeleteMany_None(ids) == options

\* a deleteMany that misses the document with the smallest id
DeleteMany_Rest(ids) ==
  [o \in OId |-> IF o \in ids /\ (\E x \in ids : x < o)
                   THEN NoOption ELSE options[o]]

\* a deleteOne in the place of the deleteMany: one matching document goes
DeleteMany_One(ids) ==
  [o \in OId |-> IF ids # {} /\ o = CHOOSE x \in ids : \A y \in ids : x <= y
                   THEN NoOption ELSE options[o]]

\* Option.deleteMany({_id: {$in: ids}}): the collection afterwards
DeleteMany(ids) == [o \in OId |-> IF o \in ids THEN NoOption ELSE options[o]]

\* no test of the vote count at all
Deletable_Any(votes) == TRUE

\* a test no vote count passes
Deletable_Strict(votes) == votes < 0

\* option.votes < 2 in the place of option.votes < 1
Deletable_Lax(votes) == votes < 2

\* option.votes < 1, the guard of the option delete
Deletable(votes) == votes < 1

\* option.votes += 2 in the place of option.votes += 1
Incremented_Twice(votes) == votes + 2

\* a count kept in one bit: 1 goes back to 0
Incremented_Wrap(votes) == (votes + 1) % 2

\* option.votes += 1
Incremented(votes) == votes + 1

\* String.prototype.trim
RECURSIVE TrimLeft(_)
TrimLeft(s) ==
  IF s # <<>> /\ Head(s) = " " THEN TrimLeft(Tail(s)) ELSE s

RECURSIVE TrimRight(_)
TrimRight(s) ==
  IF s # <<>> /\ s[Len(s)] = " " THEN TrimRight(SubSeq(s, 1, Len(s) - 1)) ELSE s

Trim(s) == TrimRight(TrimLeft(s))

\* !req.body.title || req.body.title.trim() === ""
TitleRejected(title) == title = Undefined \/ title = <<>> \/ Trim(title) = <<>>

\* text: {type: String, required: true}: the validator Option.create runs
TextValid(text) == text # Undefined /\ text # <<>>

\* --------------------------------------------------------------- results
Ok(status, id, votes) ==
  [kind |-> "ok", status |-> status, id |-> id, votes |-> votes]
NotFound   == [kind |-> "NotFound", status |-> 404, id |-> NoId, votes |-> 0]
Forbidden  == [kind |-> "Forbidden", status |-> 403, id |-> NoId, votes |-> 0]
BadRequest == [kind |-> "ValidationFailed", status |-> 400, id |-> NoId, votes |-> 0]
\* the catch blocks: a 500 whatever was thrown
StoreError == [kind |-> "StoreFailure", status |-> 500, id |-> NoId, votes |-> 0]
DocError   == [kind |-> "DocumentError", status |-> 500, id |-> NoId, votes |-> 0]

\* ------------------------------------------------------------- plumbing
\* the history of a request is kept as long as no other request takes a step,
\* and a response is on the wire until the next step of another request
NoPre == <<>>
OthersAlone(p) == [q \in Procs |-> q = p /\ alone[q]]
OthersPre(p) == [q \in Procs |-> IF q = p THEN pre[q] ELSE NoPre]
OthersReq(p) == [q \in Procs |-> IF q # p /\ pc[q] = "idle" THEN NoReq ELSE req[q]]
OthersRes(p) == [q \in Procs |-> IF q # p /\ pc[q] = "idle" THEN NoRes ELSE res[q]]

\* the scenario of the testable properties: create Question "Pick one",
\* AttachOption "A", AttachOption "B", CastVote(A), DeleteQuestion, DeleteOption(B)
Scenario ==
  << [op |-> "CreateQuestion", id |-> NoId, text |-> <<" ", "a">>],
     [op |-> "AttachOption", id |-> 1, text |-> <<"a">>],
     [op |-> "AttachOption", id |-> 1, text |-> <<"a">>],
     [op |-> "CastVote", id |-> 1, text |-> <<>>],
     [op |-> "DeleteQuestion", id |-> 1, text |-> <<>>],
     [op |-> "DeleteOption", id |-> 2, text |-> <<>>] >>

\* no other request is in flight when slot p takes a step
OthersIdle(p) == \A q \in Procs \ {p} : pc[q] = "idle"

\* the request repeated after the first three requests of the scenario:
\* DeleteOption of option A, which then has vote count 0 and stands first in
\* the list <<A, B>>
DupReq == [op |-> "DeleteOption", id |-> 1, text |-> <<>>]
MaxDup == 2

\* the histories after a step of slot p that leaves it with request r:
\* `failed` if a store call failed in the step, `done` if the response was sent
History(p, r, failed, done) ==
  /\ serial' = (serial /\ OthersIdle(p) /\ ~failed)
  /\ scn' = IF scn >= 0 /\ scn < Len(Scenario) /\ OthersIdle(p) /\ ~failed
                 /\ r = Scenario[scn + 1]
               THEN (IF done THEN scn + 1 ELSE scn)
               ELSE -1
  /\ dup' = IF scn' \in 0..3 THEN 0
             ELSE IF /\ dup >= 0
                     /\ scn \in {3, -1}
                     /\ ~failed
                     /\ r = DupReq
                     /\ \A q \in Procs \ {p} : pc[q] = "idle" \/ req[q] = DupReq
                     /\ pc[p] = "idle" =>
                          dup + Cardinality({q \in Procs \ {p} : pc[q] # "idle"}) < MaxDup
                    THEN (IF done THEN dup + 1 ELSE dup)
                    ELSE -1

\* the lists as the requests answered so far give them when taken one after
\* the other in the order of their answers: a 200 of option create appends
\* its id, a 200 of option delete with an owning question removes its id,
\* a 200 of question delete ends the list
Serialized(p, r) ==
  IF r.kind # "ok" THEN slist
  ELSE IF pc[p] = "c_saveQ"
         THEN [slist EXCEPT ![loc[p].q] = Append(@, loc[p].o)]
  ELSE IF pc[p] = "d_pull"
         THEN [slist EXCEPT ![loc[p].q] = SelectSeq(@, LAMBDA x : x # loc[p].o)]
  ELSE IF pc[p] = "q_delQ"
         THEN [slist EXCEPT ![loc[p].q] = <<>>]
  ELSE slist

\* a request arrives in slot p: the handler runs without a pause from the
\* arrival to its first store call
Arrive(p, r) ==
  /\ pc[p] = "idle"
  /\ req' = [OthersReq(p) EXCEPT ![p] = r]
  /\ pre' = [OthersPre(p) EXCEPT ![p] = store]
  /\ alone' = [OthersAlone(p) EXCEPT ![p] = TRUE]

\* the store call the handler in slot p awaits at `label` is carried out
Resume(p, label) ==
  /\ pc[p] = label
  /\ pre' = OthersPre(p)
  /\ alone' = OthersAlone(p)
  /\ req' = OthersReq(p)

\* the handler goes on to its next await
Goto(p, label, l) ==
  /\ pc' = [pc EXCEPT ![p] = label]
  /\ loc' = [loc EXCEPT ![p] = l]
  /\ res' = [OthersRes(p) EXCEPT ![p] = NoRes]
  /\ History(p, req'[p], FALSE, FALSE)
  /\ slist' = slist

\* the handler sends its response and returns
Respond(p, r) ==
  /\ pc' = [pc EXCEPT ![p] = "idle"]
  /\ loc' = [loc EXCEPT ![p] = NoLoc]
  /\ res' = [OthersRes(p) EXCEPT ![p] = r]
  /\ History(p, req'[p], r.kind = "StoreFailure", TRUE)
  /\ slist' = Serialized(p, r)

\* the awaited promise rejects inside a try block: the catch answers 500
Fails(p) ==
  /\ Respond(p, StoreError)
  /\ UNCHANGED <<questions, options, nextQ, nextO, acks>>

Init ==
  /\ questions = [q \in QId |-> NoQuestion]
  /\ options = [o \in OId |-> NoOption]
  /\ nextQ = 1
  /\ nextO = 1
  /\ pc = [p \in Procs |-> "idle"]
  /\ req = [p \in Procs |-> NoReq]
  /\ loc = [p \in Procs |-> NoLoc]
  /\ res = [p \in Procs |-> NoRes]
  /\ pre = [p \in Procs |-> NoPre]
  /\ alone = [p \in Procs |-> FALSE]
  /\ acks = [o \in OId |-> 0]
  /\ serial = TRUE
  /\ scn = 0
  /\ slist = [q \in QId |-> <<>>]
  /\ dup = 0

\* ids the store has still to hand out to the requests in flight
PendingO == Cardinality({p \in Procs : pc[p] = "c_create"})

\* addVote requests answered 200 or still able to be
RECURSIVE SumAcks(_)
SumAcks(S) ==
  IF S = {} THEN 0
  ELSE LET o == CHOOSE x \in S : TRUE IN acks[o] + SumAcks(S \ {o})

VotesAccepted == SumAcks(OId) + Cardinality({p \in Procs : pc[p] = "v_save"})

\* ------------------------------ question_controller.create (POST /questions/create)
\* the title check, then await Question.create({title: req.body.title.trim()})
QuestionCreate(p) ==
  \E title \in Titles :
    /\ Arrive(p, [op |-> "CreateQuestion", id |-> NoId, text |-> title])
    /\ \/ /\ TitleRejected(title)
          /\ Respond(p, BadRequest)
          /\ UNCHANGED <<questions, options, nextQ, nextO, acks>>
       \/ /\ ~TitleRejected(title)
          /\ Fails(p)
       \/ /\ ~TitleRejected(title)
          /\ nextQ <= MaxQ
          /\ questions' = [questions EXCEPT ![nextQ] = NewQuestion]
          /\ nextQ' = nextQ + 1
          /\ Respond(p, Ok(201, nextQ, 0))
          /\ UNCHANGED <<options, nextO, acks>>

\* ------------------------------ option_controller.create (POST /options/:id/create)
\* let question = await Question.findById(req.params.id), outside the try block
OptionCreate_FindQuestion(p) ==
  \E q \in QId, text \in Texts :
    /\ nextO + PendingO <= MaxO
    /\ Arrive(p, [op |-> "AttachOption", id |-> q, text |-> text])
    /\ \/ /\ pc' = [pc EXCEPT ![p] = "unhandled"]
          /\ loc' = [loc EXCEPT ![p] = NoLoc]
          /\ res' = [OthersRes(p) EXCEPT ![p] = NoRes]
          /\ History(p, req'[p], TRUE, FALSE)
          /\ slist' = slist
          /\ UNCHANGED <<questions, options, nextQ, nextO, acks>>
       \/ /\ IF QuestionFound(q)
               THEN Goto(p, "c_create", [NoLoc EXCEPT !.q = q])
               ELSE Respond(p, NotFound)
          /\ UNCHANGED <<questions, options, nextQ, nextO, acks>>

\* let option = await Option.create({text: req.body.text})
OptionCreate_Create(p) ==
  /\ Resume(p, "c_create")
  /\ \/ Fails(p)
     \/ /\ ~TextValid(req[p].text)
        /\ Respond(p, DocError)
        /\ UNCHANGED <<questions, options, nextQ, nextO, acks>>
     \/ /\ TextValid(req[p].text)
        /\ options' = [options EXCEPT ![nextO] = NewOption]
        /\ nextO' = nextO + 1
        /\ Goto(p, "c_saveLink", [loc[p] EXCEPT !.o = nextO])
        /\ UNCHANGED <<questions, nextQ, acks>>

\* option.link_to_vote = ...; await option.save()
OptionCreate_SaveLink(p) ==
  /\ Resume(p, "c_saveLink")
  /\ \/ Fails(p)
     \/ /\ ~OptionFound(loc[p].o)
        /\ options' = [options EXCEPT ![loc[p].o] = NoMatch(@)]
        /\ Respond(p, DocError)
        /\ UNCHANGED <<questions, nextQ, nextO, acks>>
     \/ /\ OptionFound(loc[p].o)
        /\ options' = [options EXCEPT ![loc[p].o].link = TRUE]
        /\ Goto(p, "c_saveQ", loc[p])
        /\ UNCHANGED <<questions, nextQ, nextO, acks>>

\* question.options.push(option._id); await question.save(); return res.json(option)
OptionCreate_SaveQuestion(p) ==
  /\ Resume(p, "c_saveQ")
  /\ \/ Fails(p)
     \/ /\ ~QuestionFound(loc[p].q)
        /\ questions' = [questions EXCEPT ![loc[p].q] = NoMatch(@)]
        /\ Respond(p, DocError)
        /\ UNCHANGED <<options, nextQ, nextO, acks>>
     \/ /\ QuestionFound(loc[p].q)
        /\ questions' = [questions EXCEPT ![loc[p].q].options = Push(@, loc[p].o)]
        /\ Respond(p, Ok(200, loc[p].o, DefaultVotes))
        /\ UNCHANGED <<options, nextQ, nextO, acks>>

\* ------------------------------ option_controller.addVote (GET /options/:id/add_vote)
\* let option = await Option.findById(req.params.id)
AddVote_Find(p) ==
  \E o \in OId :
    /\ VotesAccepted < MaxVotes
    /\ Arrive(p, [op |-> "CastVote", id |-> o, text |-> <<>>])
    /\ \/ Fails(p)
       \/ /\ IF OptionFound(o)
               THEN Goto(p, "v_save", [NoLoc EXCEPT !.o = o, !.votes = options[o].votes])
               ELSE Respond(p, NotFound)
          /\ UNCHANGED <<questions, options, nextQ, nextO, acks>>

\* the count the handler writes back: the count it read, plus one
VoteToSave(p) == Incremented(loc[p].votes)

\* option.votes += 1; await option.save(); return res.json({data: option})
AddVote_Save(p) ==
  /\ Resume(p, "v_save")
  /\ \/ Fails(p)
     \/ /\ ~OptionFound(loc[p].o)
        /\ options' = [options EXCEPT ![loc[p].o] = NoMatch(@)]
        /\ Respond(p, DocError)
        /\ UNCHANGED <<questions, nextQ, nextO, acks>>
     \/ /\ OptionFound(loc[p].o)
        /\ options' = [options EXCEPT ![loc[p].o].votes = VoteToSave(p)]
        /\ acks' = [acks EXCEPT ![loc[p].o] = @ + 1]
        /\ Respond(p, Ok(200, loc[p].o, VoteToSave(p)))
        /\ UNCHANGED <<questions, nextQ, nextO>>

\* ------------------------------ option_controller.delete (DELETE /options/:id/delete)
\* let option = await Option.findById(req.params.id); if (option.votes < 1)
OptionDelete_Find(p) ==
  \E o \in OId :
    /\ Arrive(p, [op |-> "DeleteOption", id |-> o, text |-> <<>>])
    /\ \/ Fails(p)
       \/ /\ IF ~OptionFound(o)
               THEN Respond(p, NotFound)
               ELSE IF Deletable(options[o].votes)
                      THEN Goto(p, "d_findQ", [NoLoc EXCEPT !.o = o,
                                                            !.votes = options[o].votes])
                      ELSE Respond(p, Forbidden)
          /\ UNCHANGED <<questions, options, nextQ, nextO, acks>>

\* let question = await Question.findOne({options: {$elemMatch: {$eq: id}}})
OptionDelete_FindQuestion(p) ==
  /\ Resume(p, "d_findQ")
  /\ \/ Fails(p)
     \/ /\ IF FindOwner(loc[p].o) # NoId
             THEN Goto(p, "d_del", [loc[p] EXCEPT !.q = FindOwner(loc[p].o)])
             ELSE Goto(p, "d_delOrphan", loc[p])
        /\ UNCHANGED <<questions, options, nextQ, nextO, acks>>

\* await Option.findByIdAndDelete(req.params.id), the owning question found
OptionDelete_Delete(p) ==
  /\ Resume(p, "d_del")
  /\ \/ Fails(p)
     \/ /\ options' = [options EXCEPT ![loc[p].o] = NoOption]
        /\ Goto(p, "d_pull", loc[p])
        /\ UNCHANGED <<questions, nextQ, nextO, acks>>

\* await Question.updateOne({_id: question._id}, {$pull: {options: id}})
OptionDelete_Pull(p) ==
  /\ Resume(p, "d_pull")
  /\ \/ Fails(p)
     \/ /\ questions' =
             IF QuestionFound(loc[p].q)
               THEN [questions EXCEPT ![loc[p].q].options = Pull(@, loc[p].o)]
               ELSE questions
        /\ Respond(p, Ok(200, loc[p].o, loc[p].votes))
        /\ UNCHANGED <<options, nextQ, nextO, acks>>

\* await Option.findByIdAndDelete(req.params.id), no question references the option
OptionDelete_DeleteOrphan(p) ==
  /\ Resume(p, "d_delOrphan")
  /\ \/ Fails(p)
     \/ /\ options' = [options EXCEPT ![loc[p].o] = NoOption]
        /\ Respond(p, Ok(200, loc[p].o, loc[p].votes))
        /\ UNCHANGED <<questions, nextQ, nextO, acks>>

\* ------------------------------ question_controller.delete (DELETE /questions/:id/delete)
\* Question.findById(req.params.id): the question document, before populate
\* resolves its list; an empty list needs no second query
QuestionDelete_Find(p) ==
  \E q \in QId :
    /\ Arrive(p, [op |-> "DeleteQuestion", id |-> q, text |-> <<>>])
    /\ \/ Fails(p)
       \/ /\ IF ~QuestionFound(q)
               THEN Respond(p, NotFound)
               ELSE IF questions[q].options = <<>>
                      THEN Goto(p, "q_delQ", [NoLoc EXCEPT !.q = q])
                      ELSE Goto(p, "q_populate",
                                [NoLoc EXCEPT !.q = q, !.list = questions[q].options])
          /\ UNCHANGED <<questions, options, nextQ, nextO, acks>>

\* .populate("options"): the option documents of the list are read;
\* hasVotes = question.options.some(...); question.options.length > 0
QuestionDelete_Populate(p) ==
  /\ Resume(p, "q_populate")
  /\ \/ Fails(p)
     \/ /\ IF HasVotes(Populated(loc[p].list))
             THEN Respond(p, Forbidden)
             ELSE IF Populated(loc[p].list) # {}
                    THEN Goto(p, "q_delMany", [loc[p] EXCEPT !.docs = Populated(loc[p].list)])
                    ELSE Goto(p, "q_delQ", loc[p])
        /\ UNCHANGED <<questions, options, nextQ, nextO, acks>>

\* await Option.deleteMany({_id: {$in: question.options.map((opt) => opt._id)}})
QuestionDelete_DeleteMany(p) ==
  /\ Resume(p, "q_delMany")
  /\ \/ Fails(p)
     \/ /\ options' = DeleteMany({d.id : d \in loc[p].docs})
        /\ Goto(p, "q_delQ", loc[p])
        /\ UNCHANGED <<questions, nextQ, nextO, acks>>

\* await Question.findByIdAndDelete(req.params.id); return res.status(200)
QuestionDelete_DeleteQuestion(p) ==
  /\ Resume(p, "q_delQ")
  /\ \/ Fails(p)
     \/ /\ questions' = [questions EXCEPT ![loc[p].q] = NoQuestion]
        /\ Respond(p, Ok(200, loc[p].q, 0))
        /\ UNCHANGED <<options, nextQ, nextO, acks>>

\* ------------------------------ question_controller.getQuestion (GET /questions/:id)
\* Question.findById(req.params.id).populate("options"): a read of the store
QuestionGet(p) ==
  \E q \in QId :
    /\ Arrive(p, [op |-> "GetQuestion", id |-> q, text |-> <<>>])
    /\ \/ Fails(p)
       \/ /\ IF QuestionFound(q)
               THEN Respond(p, Ok(200, q, 0))
               ELSE Respond(p, NotFound)
          /\ UNCHANGED <<questions, options, nextQ, nextO, acks>>

\* ------------------------------ home_controller.home (GET /)
\* Question.find({}).populate("options"): a read of the store
Home(p) ==
  /\ Arrive(p, [op |-> "ListQuestions", id |-> NoId, text |-> <<>>])
  /\ \/ Fails(p)
     \/ /\ Respond(p, Ok(200, NoId, 0))
        /\ UNCHANGED <<questions, options, nextQ, nextO, acks>>

\* ---------------------------------------------------------- specification
Next ==
  \E p \in Procs :
    \/ QuestionCreate(p)
    \/ OptionCreate_FindQuestion(p)
    \/ OptionCreate_Create(p)
    \/ OptionCreate_SaveLink(p)
    \/ OptionCreate_SaveQuestion(p)
    \/ AddVote_Find(p)
    \/ AddVote_Save(p)
    \/ OptionDelete_Find(p)
    \/ OptionDelete_FindQuestion(p)
    \/ OptionDelete_Delete(p)
    \/ OptionDelete_Pull(p)
    \/ OptionDelete_DeleteOrphan(p)
    \/ QuestionDelete_Find(p)
    \/ QuestionDelete_Populate(p)
    \/ QuestionDelete_DeleteMany(p)
    \/ QuestionDelete_DeleteQuestion(p)
    \/ QuestionGet(p)
    \/ Home(p)

Spec == Init /\ [][Next]_vars

\* ================================================================ claims
PreQ(p) == pre[p][1]
PreO(p) == pre[p][2]

\* slot p holds a request that no step of another request has interleaved
\* with, in the state its last step left
Alone(p, op) == alone[p] /\ req[p].op = op

\* the response of slot p is not the 500 of a failed store call
NoStoreFailure(p) == res[p].kind # "StoreFailure" /\ pc[p] # "unhandled"

Without(list, o) == SelectSeq(list, LAMBDA x : x # o)

AttachLabels == {"c_create", "c_saveLink", "c_saveQ"}

\* C1: once every addVote request on an existing option has been answered
\* 200, the stored count of the option equals the number of those requests
\* (the option was created with count 0 and was never deleted).
C1_VotesLinearizable ==
  \A o \in OId :
    (options[o].ex /\ \A p \in Procs : ~(pc[p] = "v_save" /\ loc[p].o = o))
      => options[o].votes = acks[o]

\* C2: a DeleteOption that reads an existing option with a vote count > 0
\* answers Forbidden at once and writes nothing: the store is as it found it.
C2_DeleteOptionForbidden ==
  \A p \in Procs :
    (/\ Alone(p, "DeleteOption")
     /\ NoStoreFailure(p)
     /\ PreO(p)[req[p].id].ex
     /\ PreO(p)[req[p].id].votes > 0)
      => /\ pc[p] = "idle"
         /\ res[p] = Forbidden
         /\ questions = PreQ(p)
         /\ options = PreO(p)

C2_Witness ==
  \E p \in Procs :
    /\ Alone(p, "DeleteOption")
    /\ res[p] = Forbidden
    /\ PreO(p)[req[p].id].votes > 0
    /\ \E q \in QId : req[p].id \in Range(questions[q].options)

\* C3: when the populate of a DeleteQuestion reads at least one option of the
\* question's list with a vote count > 0, the request answers Forbidden and
\* that step and the request write nothing: question, list and options stay.
C3_DeleteQuestionForbidden ==
  [][\A p \in Procs :
       (/\ pc[p] = "q_populate"
        /\ pc'[p] # pc[p]
        /\ res'[p].kind # "StoreFailure"
        /\ \E o \in Range(loc[p].list) : options[o].ex /\ options[o].votes > 0)
         => /\ pc'[p] = "idle"
            /\ res'[p] = Forbidden
            /\ questions' = questions
            /\ options' = options]_vars

C3_Witness ==
  \E p \in Procs, q \in QId :
    /\ pc[p] = "idle"
    /\ req[p] = [op |-> "DeleteQuestion", id |-> q, text |-> <<>>]
    /\ res[p] = Forbidden
    /\ questions[q].ex
    /\ \E o1, o2 \in Range(questions[q].options) :
         /\ options[o1].ex /\ options[o1].votes > 0
         /\ options[o2].ex /\ options[o2].votes = 0

\* C4: a DeleteOption of an existing option with vote count 0 that a question
\* references, run with no other request interleaved and no store failure,
\* answers success; the option is then absent and its id is gone from the
\* question's list, the other ids of the list kept in their order.
C4_Pre(p) ==
  /\ PreO(p)[req[p].id].ex
  /\ PreO(p)[req[p].id].votes = 0
  /\ \E q \in QId : PreQ(p)[q].ex /\ req[p].id \in Range(PreQ(p)[q].options)

C4_DeleteOptionSucceeds ==
  \A p \in Procs :
    (/\ Alone(p, "DeleteOption")
     /\ pc[p] = "idle"
     /\ NoStoreFailure(p)
     /\ C4_Pre(p))
      => /\ res[p].kind = "ok"
         /\ ~options[req[p].id].ex
         /\ \A q \in QId :
              /\ questions[q].ex = PreQ(p)[q].ex
              /\ questions[q].options = Without(PreQ(p)[q].options, req[p].id)

C4_Witness ==
  \E p \in Procs :
    /\ Alone(p, "DeleteOption")
    /\ pc[p] = "idle"
    /\ res[p].kind = "ok"
    /\ C4_Pre(p)
    /\ \E q \in QId :
         /\ req[p].id \in Range(PreQ(p)[q].options)
         /\ Len(PreQ(p)[q].options) >= 2
         /\ Len(questions[q].options) >= 1

\* C5: a DeleteQuestion of an existing question all of whose owned options
\* have vote count 0 (a question with no option included), run with no other
\* request interleaved and no store failure, answers success; the question
\* and every option that was in its list are then absent.
C5_Pre(p) ==
  /\ PreQ(p)[req[p].id].ex
  /\ \A o \in Range(PreQ(p)[req[p].id].options) :
       PreO(p)[o].ex => PreO(p)[o].votes = 0

C5_DeleteQuestionSucceeds ==
  \A p \in Procs :
    (/\ Alone(p, "DeleteQuestion")
     /\ pc[p] = "idle"
     /\ NoStoreFailure(p)
     /\ C5_Pre(p))
      => /\ res[p].kind = "ok"
         /\ ~questions[req[p].id].ex
         /\ \A o \in Range(PreQ(p)[req[p].id].options) : ~options[o].ex

C5_Witness ==
  \E p \in Procs :
    /\ Alone(p, "DeleteQuestion")
    /\ pc[p] = "idle"
    /\ res[p].kind = "ok"
    /\ C5_Pre(p)
    /\ \E o1, o2 \in Range(PreQ(p)[req[p].id].options) :
         o1 # o2 /\ PreO(p)[o1].ex /\ PreO(p)[o2].ex

\* C6: an AttachOption ends with (a) no new option and no new reference or
\* (b) a new option that exists and is the reference added to the list; the
\* formula is the last clause of the claim: at the end of an AttachOption no
\* list holds the id of the option it created while that option does not exist.
C6_AttachNeverDangling ==
  [][\A p \in Procs :
       (pc[p] \in AttachLabels /\ pc'[p] = "idle" /\ loc[p].o # NoId)
         => ~(/\ ~options'[loc[p].o].ex
              /\ \E q \in QId : loc[p].o \in Range(questions'[q].options))]_vars

\* C7 as claimed: an option leaves the store only in a step that finds its
\* stored vote count at 0.
C7_DeletedOnlyWithZeroVotes ==
  [][\A o \in OId :
       (options[o].ex /\ ~options'[o].ex) => options[o].votes = 0]_vars

\* C7 as amended: an option leaves the store only by a DeleteOption or a
\* DeleteQuestion that read its vote count as 0 before; the count stored at
\* the moment of the removal may be higher.
C7_DeletedOnlyIfReadZero ==
  [][\A o \in OId :
       (options[o].ex /\ ~options'[o].ex)
         => \E p \in Procs :
              \/ /\ pc[p] \in {"d_del", "d_delOrphan"}
                 /\ pc'[p] # pc[p]
                 /\ loc[p].o = o
                 /\ loc[p].votes = 0
              \/ /\ pc[p] = "q_delMany"
                 /\ pc'[p] # pc[p]
                 /\ [id |-> o, votes |-> 0] \in loc[p].docs]_vars

C7_Witness ==
  \E p \in Procs, o \in OId :
    /\ pc[p] = "d_pull"
    /\ loc[p].o = o
    /\ ~options[o].ex
    /\ acks[o] > 0

\* C8: the vote count of an existing option is a non-negative integer, 0 at
\* creation, and never decreases from one state to the next.
C8_VotesMonotonic ==
  [][\A o \in OId :
       /\ options'[o].votes \in Nat
       /\ (~options[o].ex /\ options'[o].ex) => options'[o].votes = 0
       /\ (options[o].ex /\ options'[o].ex) => options'[o].votes >= options[o].votes]_vars

\* C9: a CastVote on an existing option, run with no other request
\* interleaved, answers with the updated option, raises the count of that
\* option by exactly 1 and changes no question, no list and no other option.
C9_CastVoteAlone ==
  \A p \in Procs :
    (/\ Alone(p, "CastVote")
     /\ pc[p] = "idle"
     /\ NoStoreFailure(p)
     /\ PreO(p)[req[p].id].ex)
      => /\ res[p] = Ok(200, req[p].id, PreO(p)[req[p].id].votes + 1)
         /\ options[req[p].id] =
              [PreO(p)[req[p].id] EXCEPT !.votes = PreO(p)[req[p].id].votes + 1]
         /\ \A o \in OId \ {req[p].id} : options[o] = PreO(p)[o]
         /\ questions = PreQ(p)

C9_Witness ==
  \E p \in Procs :
    /\ Alone(p, "CastVote")
    /\ pc[p] = "idle"
    /\ res[p].kind = "ok"
    /\ PreO(p)[req[p].id].votes = 1
    /\ \E o \in OId \ {req[p].id} : options[o].ex
    /\ \E q \in QId : questions[q].options # <<>>

\* C10: an AttachOption or DeleteQuestion whose question id does not resolve,
\* and a CastVote or DeleteOption whose option id does not resolve, answers
\* NotFound at its first store call and the store is unchanged.
C10_Unresolved(p) ==
  \/ /\ req[p].op \in {"AttachOption", "DeleteQuestion"}
     /\ ~PreQ(p)[req[p].id].ex
  \/ /\ req[p].op \in {"CastVote", "DeleteOption"}
     /\ ~PreO(p)[req[p].id].ex

C10_NotFoundNoMutation ==
  \A p \in Procs :
    (alone[p] /\ NoStoreFailure(p) /\ C10_Unresolved(p))
      => /\ pc[p] = "idle"
         /\ res[p] = NotFound
         /\ questions = PreQ(p)
         /\ options = PreO(p)

C10_Witness ==
  \E p \in Procs :
    /\ alone[p]
    /\ req[p].op = "AttachOption"
    /\ C10_Unresolved(p)
    /\ res[p] = NotFound
    /\ nextQ > 1
    /\ \E o \in OId : options[o].ex

\* C11: an AttachOption that answers success, run with no other request
\* interleaved, creates exactly one new option, with an id that was not in
\* use and vote count 0, returns it, appends its id as the last element of
\* the question's list with the earlier elements in their order, and leaves
\* every other question and every other option as they were.
C11_AttachAlone ==
  \A p \in Procs :
    (/\ Alone(p, "AttachOption")
     /\ pc[p] = "idle"
     /\ res[p].kind = "ok")
      => LET o == res[p].id
             q == req[p].id
         IN  /\ o \in OId
             /\ ~PreO(p)[o].ex
             /\ \A k \in QId : o \notin Range(PreQ(p)[k].options)
             /\ options[o] = [ex |-> TRUE, votes |-> 0, link |-> TRUE]
             /\ res[p].votes = 0
             /\ \A x \in OId \ {o} : options[x] = PreO(p)[x]
             /\ PreQ(p)[q].ex
             /\ questions[q] = [ex |-> TRUE,
                                options |-> Append(PreQ(p)[q].options, o)]
             /\ \A k \in QId \ {q} : questions[k] = PreQ(p)[k]

C11_Witness ==
  \E p \in Procs :
    /\ Alone(p, "AttachOption")
    /\ pc[p] = "idle"
    /\ res[p].kind = "ok"
    /\ Len(PreQ(p)[req[p].id].options) >= 1
    /\ Len(questions[req[p].id].options) >= 2

\* C12: a DeleteOption of an existing option with vote count 0 that no
\* question's list holds, run with no other request interleaved and no store
\* failure, answers success; the option is then absent and no question has
\* changed.
C12_Pre(p) ==
  /\ PreO(p)[req[p].id].ex
  /\ PreO(p)[req[p].id].votes = 0
  /\ \A q \in QId : ~(PreQ(p)[q].ex /\ req[p].id \in Range(PreQ(p)[q].options))

C12_DeleteOrphan ==
  \A p \in Procs :
    (/\ Alone(p, "DeleteOption")
     /\ pc[p] = "idle"
     /\ NoStoreFailure(p)
     /\ C12_Pre(p))
      => /\ res[p].kind = "ok"
         /\ ~options[req[p].id].ex
         /\ questions = PreQ(p)
         /\ \A x \in OId \ {req[p].id} : options[x] = PreO(p)[x]

C12_Witness ==
  \E p \in Procs :
    /\ Alone(p, "DeleteOption")
    /\ pc[p] = "idle"
    /\ res[p].kind = "ok"
    /\ C12_Pre(p)
    /\ \E q \in QId : questions[q].ex

\* C13: a CreateQuestion whose title, or an AttachOption (on an existing
\* question) whose text, is empty or missing is answered ValidationFailed
\* without a store call having been made for it: the request is never found
\* waiting between two store calls, and its answer is the validation error.
C13_ValidatedBeforeStore ==
  \A p \in Procs :
    (/\ req[p].op \in {"CreateQuestion", "AttachOption"}
     /\ req[p].text \in {Undefined, <<>>}
     /\ req[p].op = "AttachOption" => questions[req[p].id].ex
     /\ NoStoreFailure(p))
      => /\ pc[p] = "idle"
         /\ res[p] = BadRequest

\* C14: no store failure of any handler escapes it: no request is left
\* without a response by a rejected store call.
C14_NoFailureEscapes ==
  \A p \in Procs : pc[p] # "unhandled"

\* C15: from the empty store, run one after the other with no store failure:
\* CreateQuestion("Pick one"), AttachOption A, AttachOption B, CastVote(A),
\* DeleteQuestion, DeleteOption(B). Each of the first four answers success;
\* DeleteQuestion answers Forbidden and deletes nothing; DeleteOption(B)
\* answers success, and then the question exists with list exactly <<A>>,
\* A exists with vote count 1 and B is absent.
C15_Scenario ==
  (scn >= 1 /\ \A p \in Procs : pc[p] = "idle")
    => \E p \in Procs :
         /\ req[p] = Scenario[scn]
         /\ scn \in 1..4 => res[p].kind = "ok"
         /\ scn = 4 => res[p].votes = 1
         /\ scn = 5 =>
              /\ res[p] = Forbidden
              /\ questions[1] = [ex |-> TRUE, options |-> <<1, 2>>]
              /\ options[1] = [ex |-> TRUE, votes |-> 1, link |-> TRUE]
              /\ options[2] = [ex |-> TRUE, votes |-> 0, link |-> TRUE]
         /\ scn = 6 =>
              /\ res[p].kind = "ok"
              /\ questions[1] = [ex |-> TRUE, options |-> <<1>>]
              /\ options[1] = [ex |-> TRUE, votes |-> 1, link |-> TRUE]
              /\ ~options[2].ex

C15_Witness ==
  /\ scn = 6
  /\ \E p \in Procs : req[p] = Scenario[6] /\ pc[p] = "idle" /\ res[p].kind = "ok"
  /\ questions[1].options = <<1>>

\* the next step of the request in slot p, whatever the other slots do
Continue(p) ==
  \/ OptionCreate_Create(p)
  \/ OptionCreate_SaveLink(p)
  \/ OptionCreate_SaveQuestion(p)
  \/ AddVote_Save(p)
  \/ OptionDelete_FindQuestion(p)
  \/ OptionDelete_Delete(p)
  \/ OptionDelete_Pull(p)
  \/ OptionDelete_DeleteOrphan(p)
  \/ QuestionDelete_Populate(p)
  \/ QuestionDelete_DeleteMany(p)
  \/ QuestionDelete_DeleteQuestion(p)

\* C16: a request that has started and has not yet been answered can always
\* take its next step, in every state and whatever the other requests are
\* doing, so that under weak fairness it is answered after its own steps.
C16_AlwaysProceeds ==
  \A p \in Procs : pc[p] # "idle" => ENABLED Continue(p)

\* a store call of the request in slot p fails in this step
FailsNow(p) ==
  \/ pc[p] = "idle" /\ pc'[p] = "unhandled"
  \/ res'[p].kind = "StoreFailure" /\ (pc[p] # "idle" \/ alone'[p])

\* C17: when a store call of an AttachOption, a DeleteOption or a
\* DeleteQuestion fails, the request is answered with the generic failure in
\* that step and is over (no later write), and the step changes nothing in
\* the store: the writes made before it stay (no rollback).
C17_FailureStopsRequest ==
  [][\A p \in Procs :
       (/\ req'[p].op \in {"AttachOption", "DeleteOption", "DeleteQuestion"}
        /\ FailsNow(p))
         => /\ pc'[p] = "idle"
            /\ res'[p] = StoreError
            /\ questions' = questions
            /\ options' = options]_vars

\* the places (question, position) where option id o stands in a list
Places(o) ==
  UNION {{<<q, i>> : i \in {j \in DOMAIN questions[q].options :
                              questions[q].options[j] = o}} : q \in QId}

C19_SerialConsistent ==
  (serial /\ \A p \in Procs : pc[p] = "idle")
    => /\ \A q \in QId : \A o \in Range(questions[q].options) : options[o].ex
       /\ \A o \in OId : options[o].ex => Cardinality(Places(o)) = 1

C19_Witness ==
  /\ serial
  /\ \A p \in Procs : pc[p] = "idle"
  /\ \E p \in Procs : req[p].op = "DeleteOption" /\ res[p].kind = "ok"
  /\ \E q \in QId : Len(questions[q].options) >= 1
  /\ \E o \in OId : o < nextO /\ ~options[o].ex

\* slot p is the one that takes this step
Acted(p) == alone'[p] \/ pc'[p] # pc[p]

\* C20: the list of a question changes only in the last step of an
\* AttachOption on that question, by one id appended at the end, and in the
\* $pull of a DeleteOption of an option the list holds, by that id removed;
\* a question is created with the empty list; a CastVote, a read of one
\* question, the listing of all questions and every request answered
\* NotFound or Forbidden leave every question and its list as they were.
C20_ListChanges ==
  [][/\ \A q \in QId :
          /\ (~questions[q].ex /\ questions'[q].ex)
               => /\ questions'[q].options = <<>>
                  /\ \E p \in Procs : Acted(p) /\ req'[p].op = "CreateQuestion"
          /\ (/\ questions[q].ex
              /\ questions'[q].ex
              /\ questions'[q].options # questions[q].options)
               => \E p \in Procs :
                    /\ Acted(p)
                    /\ \/ /\ req'[p] = [op |-> "AttachOption", id |-> q,
                                        text |-> req[p].text]
                          /\ pc[p] = "c_saveQ"
                          /\ res'[p].kind = "ok"
                          /\ questions'[q].options =
                               Append(questions[q].options, res'[p].id)
                       \/ /\ req'[p].op = "DeleteOption"
                          /\ pc[p] = "d_pull"
                          /\ req'[p].id \in Range(questions[q].options)
                          /\ questions'[q].options =
                               Without(questions[q].options, req'[p].id)
     /\ \A p \in Procs :
          (/\ Acted(p)
           /\ \/ req'[p].op \in {"CastVote", "GetQuestion", "ListQuestions"}
              \/ res'[p] \in {NotFound, Forbidden})
            => questions' = questions]_vars

C20_Witness ==
  \E p \in Procs :
    /\ Alone(p, "DeleteOption")
    /\ pc[p] = "idle"
    /\ res[p].kind = "ok"
    /\ PreQ(p)[1].options = <<1, 2>>
    /\ questions[1].options = <<2>>

\* C21: for requests on one question that are answered success, two
\* AttachOption or an AttachOption and a DeleteOption of another option among
\* them, and for every interleaving of their store calls, the question's list
\* is the list the same requests give when run one after the other in the
\* order of their answers: no appended id is lost, no removed id comes back.
C21_ListSerializable ==
  \A q \in QId : questions[q].ex => questions[q].options = slist[q]

C21_Witness ==
  \E p \in Procs :
    /\ req[p].op = "AttachOption"
    /\ pc[p] = "idle"
    /\ res[p].kind = "ok"
    /\ ~alone[p]
    /\ questions[req[p].id].options = <<2, 1>>
    /\ slist[req[p].id] = <<2, 1>>

\* C22 as stated: when an AttachOption on q is the last request to finish
\* and q has been deleted by then, the option that AttachOption created is
\* not in the store.
C22_NoOptionOutlivesQuestion ==
  [][\A p \in Procs :
       (/\ pc[p] = "c_saveQ"
        /\ pc'[p] = "idle"
        /\ res'[p].kind # "StoreFailure"
        /\ OthersIdle(p)
        /\ ~questions'[req'[p].id].ex)
         => ~options'[loc[p].o].ex]_vars

\* C22, amended: under any interleaving, when DeleteQuestion(q) answers
\* success no option whose id was in q's list when the request read it is
\* in the store. (An option whose AttachOption had not appended its id by
\* that read can remain, referenced by no question.)
C22_ReadOptionsGone ==
  [][\A p \in Procs :
       (/\ pc[p] = "q_delQ"
        /\ req'[p].op = "DeleteQuestion"
        /\ pc'[p] = "idle"
        /\ res'[p].kind = "ok")
         => /\ ~questions'[req'[p].id].ex
            /\ \A o \in Range(loc[p].list) : ~options'[o].ex]_vars

C22_Witness ==
  \E p \in Procs :
    /\ req[p].op = "DeleteQuestion"
    /\ pc[p] = "idle"
    /\ res[p].kind = "ok"
    /\ ~alone[p]
    /\ ~questions[req[p].id].ex
    /\ \E o \in OId : options[o].ex
    /\ \E o \in OId : o < nextO /\ ~options[o].ex
    /\ \E r \in Procs : req[r].op = "AttachOption" /\ pc[r] = "c_saveLink"

\* option o exists and no question's list holds its id
Orphan(o) == options[o].ex /\ Places(o) = {}

\* C23: an option delete whose owning question was found removes the option
\* document first and pulls the id afterwards: while it waits for the pull
\* the option is already absent and its id still in the list, and no step of
\* a DeleteOption leaves an option in the store that the step has taken out
\* of every list; with no other request interleaved, the option, as long as
\* it exists, has its id in the list of the question found.
C23_RemovedBeforePulled ==
  [][\A p \in Procs :
       (Acted(p) /\ req'[p].op = "DeleteOption")
         => /\ \A o \in OId : (options'[o].ex /\ Places(o) # {}) => Places(o)' # {}
            /\ pc'[p] = "d_pull"
                 => /\ ~options'[loc'[p].o].ex
                    /\ questions' = questions
            /\ pc[p] = "d_pull" => options' = options
            /\ (alone'[p] /\ pc'[p] \in {"d_del", "d_pull"} /\ options'[loc'[p].o].ex)
                 => loc'[p].o \in Range(questions'[loc'[p].q].options)]_vars

C23_Witness ==
  \E p \in Procs :
    /\ pc[p] = "d_pull"
    /\ ~options[loc[p].o].ex
    /\ questions[loc[p].q].ex
    /\ loc[p].o \in Range(questions[loc[p].q].options)
    /\ \E o \in Range(questions[loc[p].q].options) : options[o].ex

\* C24: a DeleteQuestion removes options in one store call only, the
\* deleteMany over all the documents it read: after that call none of them
\* exists, whatever ran in between; and it removes the question in a later
\* call, when no option of the list it read exists any more.
C24_BulkThenQuestion ==
  [][\A p \in Procs :
       (Acted(p) /\ req'[p].op = "DeleteQuestion")
         => LET gone == {o \in OId : options[o].ex /\ ~options'[o].ex}
                read == {d.id : d \in loc[p].docs}
            IN  /\ options' # options
                     => /\ pc[p] = "q_delMany"
                        /\ gone = {o \in read : options[o].ex}
                        /\ questions' = questions
                /\ (pc[p] = "q_delMany" /\ pc'[p] = "q_delQ")
                     => \A o \in read : ~options'[o].ex
                /\ questions' # questions
                     => /\ pc[p] = "q_delQ"
                        /\ ~questions'[loc[p].q].ex
                        /\ options' = options
                        /\ \A o \in Range(loc[p].list) : ~options[o].ex]_vars

C24_Witness ==
  \E p \in Procs :
    /\ pc[p] = "q_delQ"
    /\ Cardinality(loc[p].docs) = MaxO
    /\ \A d \in loc[p].docs : ~options[d.id].ex
    /\ questions[loc[p].q].ex

\* C25: after CreateQuestion, AttachOption A and AttachOption B, two
\* DeleteOption(A) requests, their store calls interleaved in every way and
\* none failing, are each answered success or NotFound, and once answered
\* they leave what one DeleteOption(A) leaves: A absent, its id out of the
\* list, B and its place in the list as they were.
C25_RepeatedDelete ==
  (dup >= 0 /\ scn = -1)
    => /\ \A p \in Procs :
            (pc[p] = "idle" /\ req[p] = DupReq) => res[p].kind \in {"ok", "NotFound"}
       /\ (dup >= 1 /\ \A p \in Procs : pc[p] = "idle")
            => /\ questions[1] = [ex |-> TRUE, options |-> <<2>>]
               /\ ~options[1].ex
               /\ options[2] = [ex |-> TRUE, votes |-> 0, link |-> TRUE]

C25_Witness ==
  /\ dup = MaxDup
  /\ scn = -1
  /\ \E p \in Procs :
       /\ pc[p] = "idle"
       /\ req[p] = DupReq
       /\ res[p].kind = "ok"
       /\ ~alone[p]
  /\ questions[1].options = <<2>>

\* C26: a document comes into being only when it is created under a new
\* id: under any interleaving, no step makes a question or an option that
\* was deleted exist again, the saves of an AttachOption or a CastVote still
\* in flight when it was deleted included.
C26_NoResurrection ==
  [][/\ \A o \in OId :
          (~options[o].ex /\ options'[o].ex) => (o = nextO /\ nextO' = nextO + 1)
     /\ \A q \in QId :
          (~questions[q].ex /\ questions'[q].ex) => (q = nextQ /\ nextQ' = nextQ + 1)]_vars

C26_Witness ==
  \E p \in Procs :
    /\ pc[p] = "idle"
    /\ req[p].op = "CastVote"
    /\ res[p] = DocError
    /\ req[p].id < nextO
    /\ ~options[req[p].id].ex

\* C27: under any interleaving of CastVote requests, the stored count of an
\* option that exists, once 1 or more, is never 0 again while the option
\* exists; a DeleteOption that reads such an option, and a DeleteQuestion
\* that reads it in the list of its question, are answered Forbidden.
C27_VotedStaysVoted ==
  [][/\ \A o \in OId :
          (options[o].ex /\ options[o].votes >= 1 /\ options'[o].ex)
            => options'[o].votes >= 1
     /\ \A p \in Procs :
          /\ (/\ Acted(p)
              /\ pc[p] = "idle"
              /\ req'[p].op = "DeleteOption"
              /\ options[req'[p].id].ex
              /\ options[req'[p].id].votes >= 1
              /\ res'[p].kind # "StoreFailure")
               => (pc'[p] = "idle" /\ res'[p] = Forbidden)
          /\ (/\ Acted(p)
              /\ pc[p] = "q_populate"
              /\ \E o \in Range(loc[p].list) : options[o].ex /\ options[o].votes >= 1
              /\ res'[p].kind # "StoreFailure")
               => (pc'[p] = "idle" /\ res'[p] = Forbidden)]_vars

C27_Witness ==
  \E p, r \in Procs :
    /\ pc[p] = "idle"
    /\ req[p].op = "DeleteOption"
    /\ res[p] = Forbidden
    /\ pc[r] = "v_save"
    /\ loc[r].o = req[p].id
    /\ loc[r].votes = 0
    /\ options[req[p].id].votes = 2

\* id o stands in a list and is the id of no option
Dangling(o) == ~options[o].ex /\ Places(o) # {}

C29_Pre(p) ==
  /\ PreQ(p)[req[p].id].ex
  /\ \E o \in Range(PreQ(p)[req[p].id].options) : ~PreO(p)[o].ex
  /\ \A o \in Range(PreQ(p)[req[p].id].options) :
       PreO(p)[o].ex => PreO(p)[o].votes = 0

C29_DanglingDoesNotBlock ==
  \A p \in Procs :
    (/\ Alone(p, "DeleteQuestion")
     /\ pc[p] = "idle"
     /\ NoStoreFailure(p)
     /\ C29_Pre(p))
      => /\ res[p].kind = "ok"
         /\ ~questions[req[p].id].ex
         /\ \A o \in OId :
              IF o \in Range(PreQ(p)[req[p].id].options)
                THEN ~options[o].ex
                ELSE options[o] = PreO(p)[o]

C29_Witness ==
  \E p \in Procs :
    /\ Alone(p, "DeleteQuestion")
    /\ pc[p] = "idle"
    /\ res[p].kind = "ok"
    /\ C29_Pre(p)
    /\ \E o \in Range(PreQ(p)[req[p].id].options) : PreO(p)[o].ex

\* C30: an option that exists with vote count 1 or more and is in no list
\* is kept, with a count no lower, by every step of a request that runs with
\* no other request interleaved; a DeleteOption of it that runs so is
\* answered Forbidden (store failure apart).
C30_VotedOrphanStays ==
  [][\A p \in Procs :
       (Acted(p) /\ alone'[p] /\ OthersIdle(p))
         => /\ \A o \in OId :
                 (Orphan(o) /\ options[o].votes >= 1)
                   => /\ options'[o].ex
                      /\ options'[o].votes >= options[o].votes
                      /\ Places(o)' = {}
            /\ (/\ pc[p] = "idle"
                /\ req'[p].op = "DeleteOption"
                /\ Orphan(req'[p].id)
                /\ options[req'[p].id].votes >= 1
                /\ res'[p].kind # "StoreFailure")
                 => (pc'[p] = "idle" /\ res'[p] = Forbidden)]_vars

C30_Witness ==
  \E p \in Procs :
    /\ Alone(p, "DeleteQuestion")
    /\ pc[p] = "idle"
    /\ res[p].kind = "ok"
    /\ \E o \in OId : Orphan(o) /\ options[o].votes >= 1 /\ PreO(p)[o] = options[o]
    /\ \E o \in OId : PreO(p)[o].ex /\ ~options[o].ex

====
